---- MODULE Spec2Model ----
(***************************************************************************)
(* Model of package devicemodel (cypacky-io/device-parser): the load-once  *)
(* family mappings, the loader, the prefix classifier and the three lookup *)
(* operations, with callers running concurrently through sync.Once.        *)
(*                                                                         *)
(* Go strings are modelled as sequences of one-character strings, so that  *)
(* strings.TrimSpace, strings.ToLower and strings.HasPrefix are computed   *)
(* character by character.  A Go map[string]string is a function whose     *)
(* domain is its key set; reading a missing key (or a nil map) yields "".  *)
(***************************************************************************)
EXTENDS Integers, Sequences, FiniteSets, TLC

\* ------------------------------------------------------------------ bounds
\* number of concurrent callers (goroutines)
NumProcs == 2
\* widest run of whitespace put around an argument
MaxPad == 1

Procs == 1..NumProcs

\* ----------------------------------------------------------- Go strings
EmptyStr == <<>>

WhiteSpace == {" ", "\t", "\n", "\r"}

UpperLetters == <<"A", "B", "C", "D", "E", "F", "G", "H", "I", "J", "K", "L", "M", "N", "O", "P", "Q", "R", "S", "T", "U", "V", "W", "X", "Y", "Z">>
LowerLetters == <<"a", "b", "c", "d", "e", "f", "g", "h", "i", "j", "k", "l", "m", "n", "o", "p", "q", "r", "s", "t", "u", "v", "w", "x", "y", "z">>

ToLowerChar(c) ==
    IF \E i \in 1..Len(UpperLetters) : UpperLetters[i] = c
    THEN LowerLetters[CHOOSE i \in 1..Len(UpperLetters) : UpperLetters[i] = c]
    ELSE c

\* strings.ToLower
ToLower(s) == [i \in 1..Len(s) |-> ToLowerChar(s[i])]

RECURSIVE TrimLeft(_)
TrimLeft(s) ==
    IF s # <<>> /\ Head(s) \in WhiteSpace THEN TrimLeft(Tail(s)) ELSE s

RECURSIVE TrimRight(_)
TrimRight(s) ==
    IF s # <<>> /\ s[Len(s)] \in WhiteSpace
    THEN TrimRight(SubSeq(s, 1, Len(s) - 1))
    ELSE s

\* strings.TrimSpace
TrimSpace(s) == TrimRight(TrimLeft(s))

\* strings.HasPrefix
HasPrefix(s, prefix) ==
    Len(s) >= Len(prefix) /\ SubSeq(s, 1, Len(prefix)) = prefix

\* ------------------------------------------------------------- constants
PlatformIOS      == <<"i", "o", "s">>
PlatformIPADOS   == <<"i", "p", "a", "d", "o", "s">>
PlatformMACOS    == <<"m", "a", "c", "o", "s">>
PlatformTVOS     == <<"t", "v", "o", "s">>
PlatformWatchOS  == <<"w", "a", "t", "c", "h", "o", "s">>
PlatformVisionOS == <<"v", "i", "s", "i", "o", "n", "o", "s">>

iosPath      == "data/ios-device-identifiers.json"
macPath      == "data/mac-device-identifiers.json"
tvosPath     == "data/tvos-device-identifiers.json"
watchosPath  == "data/watchos-device-identifiers.json"
visionosPath == "data/visionos-device-identifiers.json"
upstreamPath == "data/UPSTREAM.json"

DevicePaths == {iosPath, macPath, tvosPath, watchosPath, visionosPath}

\* --------------------------------------------------- embedded documents
\* A decoded JSON value (the `any` produced by encoding/json).
Str(s)     == [t |-> "string", s |-> s,    items |-> <<>>]
Arr(items) == [t |-> "array",  s |-> <<>>, items |-> items]
Num        == [t |-> "number", s |-> <<>>, items |-> <<>>]
Null       == [t |-> "null",   s |-> <<>>, items |-> <<>>]

\* upstreamMeta{}: the zero value
ZeroMeta ==
    [UpstreamRepo |-> EmptyStr, UpstreamRef |-> EmptyStr,
     UpstreamSHA |-> EmptyStr, SyncedAtUTC |-> EmptyStr]

NoEntries == [k \in {} |-> Null]

\* An embedded file: readErr = embeddedData.ReadFile fails; parseErr =
\* json.Unmarshal fails; raw = the decoded object of a device document;
\* fields = what json.Unmarshal stores into an upstreamMeta.
Doc(raw)   == [readErr |-> FALSE, parseErr |-> FALSE, raw |-> raw, fields |-> ZeroMeta]
ReadErrDoc == [readErr |-> TRUE, parseErr |-> FALSE, raw |-> NoEntries, fields |-> ZeroMeta]
ParseErrDoc == [readErr |-> FALSE, parseErr |-> TRUE, raw |-> NoEntries, fields |-> ZeroMeta]
MetaDoc(m) == [readErr |-> FALSE, parseErr |-> FALSE, raw |-> NoEntries, fields |-> m]

\* identifiers used as document keys and as query arguments
kIPhone  == <<"i", "P", "h", "o", "n", "e", "1">>
kIPod    == <<"i", "P", "o", "d", "1">>
kIPad    == <<"i", "P", "a", "d", "1">>
kWatch   == <<"W", "a", "t", "c", "h", "1">>
kTV      == <<"A", "p", "p", "l", "e", "T", "V", "1">>
kReality == <<"R", "e", "a", "l", "i", "t", "y", "D", "e", "v", "i", "c", "e", "1">>
kIMac    == <<"i", "M", "a", "c", "1">>
kMac     == <<"M", "a", "c", "1">>
kOther   == <<"X", "1">>
kPadded  == <<" ", "i", "P", "a", "d", "1">>

\* the letter that marks the names of one family's documents
FamilyLetter(path) ==
    CASE path = iosPath      -> "I"
      [] path = macPath      -> "M"
      [] path = tvosPath     -> "T"
      [] path = watchosPath  -> "W"
      [] path = visionosPath -> "V"

\* a function given as a set of <<key, value>> pairs with distinct keys
FromPairs(pairs) ==
    [k \in {pr[1] : pr \in pairs} |-> (CHOOSE pr \in pairs : pr[1] = k)[2]]

\* the identifiers of a family itself, with names given as one string or
\* as a list of candidates
OwnEntries(path) ==
    CASE path = iosPath ->
           FromPairs({
             <<kIPhone, Str(<<"I", "1">>)>>,
             <<kIPod, Arr(<<Str(<<>>), Str(<<" ", "\t">>), Str(<<" ", "I", "2", " ">>), Str(<<"I", "3">>)>>)>>,
             <<kIPad, Str(<<" ", "I", "4", "\n">>)>> })
      [] path = macPath ->
           FromPairs({
             <<kIMac, Str(<<"M", "1">>)>>,
             <<kMac, Arr(<<Num, Str(<<"M", "2">>)>>)>> })
      [] path = tvosPath ->
           FromPairs({ <<kTV, Arr(<<Str(<<"T", "1">>), Str(<<"T", "2">>)>>)>> })
      [] path = watchosPath ->
           FromPairs({ <<kWatch, Str(<<"W", "1">>)>> })
      [] path = visionosPath ->
           FromPairs({ <<kReality, Str(<<"V", "1", " ">>)>> })

\* identifiers of other families, identifiers without a known prefix, keys
\* with whitespace, and values of every shape
OddEntries(path) ==
    LET f == FamilyLetter(path) IN
    FromPairs({
      <<kOther,   Str(<<" ", f, "a", " ">>)>>,
      <<kIPhone,  Arr(<<Null, Str(<<>>), Str(<<" ">>), Str(<<f, "b", " ">>), Str(<<f, "c">>)>>)>>,
      <<kWatch,   Str(<<f, "d">>)>>,
      <<kIPad,    Str(<<f, "e">>)>>,
      <<kPadded,  Str(<<f, "f">>)>>,
      <<EmptyStr, Str(<<f, "g">>)>>,
      <<kIMac,    Str(<<>>)>>,
      <<kMac,     Arr(<<>>)>>,
      <<kTV,      Num>>,
      <<kReality, Arr(<<Str(<<" ">>), Num, Null>>)>>,
      <<kIPod,    Str(<<"\t", " ", "\n">>)>> })

\* the document of one family: its own identifiers and the odd entries
FamilyDoc(path) ==
    Doc([k \in DOMAIN OwnEntries(path) \cup DOMAIN OddEntries(path) |->
           IF k \in DOMAIN OwnEntries(path)
           THEN OwnEntries(path)[k] ELSE OddEntries(path)[k]])

\* a document holding nothing but the family's own identifiers
OwnDoc(path) == Doc(OwnEntries(path))

GoodMeta ==
    [UpstreamRepo |-> <<"o", "/", "r">>, UpstreamRef |-> <<"m", "a", "i", "n">>,
     UpstreamSHA |-> <<"a", "b", "1">>, SyncedAtUTC |-> <<"2", "0", "2", "6", "Z">>]

DeviceDocs(path) == {FamilyDoc(path), ReadErrDoc, ParseErrDoc}

\* the documents of fs that cannot be read, and those that cannot be parsed
Unreadable(fs) == {path \in DOMAIN fs : fs[path].readErr}
Unparsable(fs) == {path \in DOMAIN fs : fs[path].parseErr}
\* a metadata document whose upstream_sha is not a string: json.Unmarshal
\* reports the error after storing the other fields
PartialMetaDoc ==
    [readErr |-> FALSE, parseErr |-> TRUE, raw |-> NoEntries,
     fields |-> [GoodMeta EXCEPT !.UpstreamSHA = EmptyStr]]


\* embed.FS: one document per embedded path
FS(ios, mac, tv, watch, vision, up) ==
    [p \in DevicePaths \cup {upstreamPath} |->
        CASE p = iosPath      -> ios
          [] p = macPath      -> mac
          [] p = tvosPath     -> tv
          [] p = watchosPath  -> watch
          [] p = visionosPath -> vision
          [] p = upstreamPath -> up]

\* each device document present, unreadable or unparsable; the metadata
\* document present or unreadable
AllData ==
    {FS(a, b, c, d, e, u) :
        a \in DeviceDocs(iosPath), b \in DeviceDocs(macPath),
        c \in DeviceDocs(tvosPath), d \in DeviceDocs(watchosPath),
        e \in DeviceDocs(visionosPath), u \in {MetaDoc(GoodMeta), ReadErrDoc}}

\* the embedded file systems the sequential specification starts from: the
\* failing device documents are all unreadable or all unparsable
OneKindOfFailure(fs) ==
    Unreadable(fs) \ {upstreamPath} = {} \/ Unparsable(fs) = {}

SeqData == {fs \in AllData : OneKindOfFailure(fs)}

\* the embedded file systems the concurrent specification starts from
ConcData ==
    {FS(OwnDoc(iosPath), OwnDoc(macPath), OwnDoc(tvosPath),
        OwnDoc(watchosPath), OwnDoc(visionosPath), MetaDoc(GoodMeta)),
     FS(FamilyDoc(iosPath), ParseErrDoc, FamilyDoc(tvosPath),
        FamilyDoc(watchosPath), ReadErrDoc, PartialMetaDoc),
     FS(ReadErrDoc, FamilyDoc(macPath), OwnDoc(tvosPath),
        ParseErrDoc, FamilyDoc(visionosPath), ReadErrDoc)}

\* ------------------------------------------------------ query arguments
RECURSIVE Spaces(_)
Spaces(n) == IF n = 0 THEN <<>> ELSE <<" ">> \o Spaces(n - 1)

\* s with up to MaxPad blanks (and a tab or newline) on either side
Padded(s) ==
    {Spaces(l) \o s \o Spaces(r) : l \in 0..MaxPad, r \in 0..MaxPad}
      \cup {<<"\t">> \o s \o <<"\n">>}

Codes ==
    {kIPhone, kIPod, kWatch, kTV, kReality, kIMac, kMac, kOther,
     <<"i", "p", "h", "o", "n", "e", "1">>, <<"i", "P", "h", "o", "n", "e">>, <<"Z", "9">>}
      \cup Padded(kIPad) \cup Padded(EmptyStr)

Platforms ==
    {PlatformIOS, PlatformIPADOS, PlatformMACOS, PlatformTVOS,
     PlatformWatchOS, PlatformVisionOS, <<"I", "O", "S">>, <<" ", "i", "P", "a", "d", "O", "S", " ">>,
     <<"\t", "W", "a", "t", "c", "h", "O", "S", "\n">>, <<"a", "n", "d", "r", "o", "i", "d">>, <<"i", "o">>, <<"i", "o", "s", "2">>, <<"t", "v", " ", "o", "s">>}
      \cup Padded(EmptyStr)

ConcCodes == {kIPhone, <<" ", "W", "a", "t", "c", "h", "1", " ">>}
ConcPlatforms == {EmptyStr, PlatformIPADOS}

\* ------------------------------------------------------------------ state
VARIABLES
    embeddedData,   \* the embedded documents (never written)
    loadOnce,       \* sync.Once: done flag and mutex holder (0 = unlocked)
    iosMap, macosMap, tvosMap, watchosMap, visionosMap, meta,
    pc,             \* where each caller is
    op,             \* the public operation each caller is in
    ret,            \* the last call each caller returned from
    fast,           \* whether that call passed loadAll on the fast path
    loadRuns,       \* how often the body given to loadOnce.Do has started
    writes          \* how often each package variable has been assigned

maps == <<iosMap, macosMap, tvosMap, watchosMap, visionosMap>>
vars == <<embeddedData, loadOnce, iosMap, macosMap, tvosMap, watchosMap,
          visionosMap, meta, pc, op, ret, fast, loadRuns, writes>>

PkgVars == {"iosMap", "macosMap", "tvosMap", "watchosMap", "visionosMap", "meta"}

\* a nil map[string]string
NilMap == [k \in {} |-> EmptyStr]

\* m[code] on a Go map: the zero value when the key is missing
MapGet(m, code) == IF code \in DOMAIN m THEN m[code] ELSE EmptyStr

\* ----------------------------------------------------------------- loader
RECURSIVE firstInItems(_)
firstInItems(items) ==
    IF items = <<>> THEN EmptyStr
    ELSE LET item == Head(items) IN
         IF item.t = "string" /\ TrimSpace(item.s) # EmptyStr
         THEN TrimSpace(item.s)
         ELSE firstInItems(Tail(items))

\* case string: return typed, without strings.TrimSpace
firstModelName_untrimmed(value) ==
    CASE value.t = "string" -> value.s
      [] value.t = "array"  -> firstInItems(value.items)
      [] OTHER              -> EmptyStr

firstModelName(value) ==
    CASE value.t = "string" -> TrimSpace(value.s)
      [] value.t = "array"  -> firstInItems(value.items)
      [] OTHER              -> EmptyStr

readDeviceMap(path) ==
    LET doc == embeddedData[path] IN
    IF doc.readErr THEN NilMap
    ELSE IF doc.parseErr THEN NilMap
    ELSE [key \in {k \in DOMAIN doc.raw : firstModelName(doc.raw[k]) # EmptyStr}
            |-> firstModelName(doc.raw[key])]

readUpstreamMeta(path) ==
    LET doc == embeddedData[path] IN
    IF doc.readErr THEN ZeroMeta ELSE doc.fields

\* ---------------------------------------------------------------- lookups
LookupDetail(platform, name) == [Platform |-> platform, Name |-> name]
EmptyDetail == LookupDetail(EmptyStr, EmptyStr)

\* an empty platform stands for ios, as in src/devicemodel/lookup.go
normalizePlatform_defaultIOS(platform) ==
    IF TrimSpace(ToLower(platform)) = EmptyStr
    THEN PlatformIOS
    ELSE TrimSpace(ToLower(platform))

normalizePlatform(platform) == TrimSpace(ToLower(platform))

lookupByPrefixDetailed(code) ==
    CASE HasPrefix(code, <<"i", "P", "h", "o", "n", "e">>) \/ HasPrefix(code, <<"i", "P", "o", "d">>) ->
           LookupDetail(PlatformIOS, MapGet(iosMap, code))
      [] HasPrefix(code, <<"i", "P", "a", "d">>) ->
           LookupDetail(PlatformIPADOS, MapGet(iosMap, code))
      [] HasPrefix(code, <<"W", "a", "t", "c", "h">>) ->
           LookupDetail(PlatformWatchOS, MapGet(watchosMap, code))
      [] HasPrefix(code, <<"A", "p", "p", "l", "e", "T", "V">>) ->
           LookupDetail(PlatformTVOS, MapGet(tvosMap, code))
      [] HasPrefix(code, <<"R", "e", "a", "l", "i", "t", "y", "D", "e", "v", "i", "c", "e">>) ->
           LookupDetail(PlatformVisionOS, MapGet(visionosMap, code))
      [] HasPrefix(code, <<"i", "M", "a", "c">>) \/ HasPrefix(code, <<"M", "a", "c">>) ->
           LookupDetail(PlatformMACOS, MapGet(macosMap, code))
      [] OTHER -> EmptyDetail

\* the classifier's result is returned when its Platform is set
LookupDetailed_tagOnly(code0) ==
    LET code == TrimSpace(code0) IN
    IF code = EmptyStr THEN EmptyDetail
    ELSE IF lookupByPrefixDetailed(code).Platform # EmptyStr
         THEN lookupByPrefixDetailed(code)
    ELSE IF MapGet(iosMap, code) # EmptyStr
         THEN LookupDetail(PlatformIOS, MapGet(iosMap, code))
    ELSE IF MapGet(macosMap, code) # EmptyStr
         THEN LookupDetail(PlatformMACOS, MapGet(macosMap, code))
    ELSE IF MapGet(tvosMap, code) # EmptyStr
         THEN LookupDetail(PlatformTVOS, MapGet(tvosMap, code))
    ELSE IF MapGet(watchosMap, code) # EmptyStr
         THEN LookupDetail(PlatformWatchOS, MapGet(watchosMap, code))
    ELSE IF MapGet(visionosMap, code) # EmptyStr
         THEN LookupDetail(PlatformVisionOS, MapGet(visionosMap, code))
    ELSE EmptyDetail

\* the fallback scan looks at watchosMap before tvosMap
LookupDetailed_scanOrder(code0) ==
    LET code == TrimSpace(code0) IN
    IF code = EmptyStr THEN EmptyDetail
    ELSE IF lookupByPrefixDetailed(code).Name # EmptyStr
         THEN lookupByPrefixDetailed(code)
    ELSE IF MapGet(iosMap, code) # EmptyStr
         THEN LookupDetail(PlatformIOS, MapGet(iosMap, code))
    ELSE IF MapGet(macosMap, code) # EmptyStr
         THEN LookupDetail(PlatformMACOS, MapGet(macosMap, code))
    ELSE IF MapGet(watchosMap, code) # EmptyStr
         THEN LookupDetail(PlatformWatchOS, MapGet(watchosMap, code))
    ELSE IF MapGet(tvosMap, code) # EmptyStr
         THEN LookupDetail(PlatformTVOS, MapGet(tvosMap, code))
    ELSE IF MapGet(visionosMap, code) # EmptyStr
         THEN LookupDetail(PlatformVisionOS, MapGet(visionosMap, code))
    ELSE EmptyDetail

\* LookupDetailed after its call of loadAll()
LookupDetailed(code0) ==
    LET code == TrimSpace(code0) IN
    IF code = EmptyStr THEN EmptyDetail
    ELSE IF lookupByPrefixDetailed(code).Name # EmptyStr
         THEN lookupByPrefixDetailed(code)
    ELSE IF MapGet(iosMap, code) # EmptyStr
         THEN LookupDetail(PlatformIOS, MapGet(iosMap, code))
    ELSE IF MapGet(macosMap, code) # EmptyStr
         THEN LookupDetail(PlatformMACOS, MapGet(macosMap, code))
    ELSE IF MapGet(tvosMap, code) # EmptyStr
         THEN LookupDetail(PlatformTVOS, MapGet(tvosMap, code))
    ELSE IF MapGet(watchosMap, code) # EmptyStr
         THEN LookupDetail(PlatformWatchOS, MapGet(watchosMap, code))
    ELSE IF MapGet(visionosMap, code) # EmptyStr
         THEN LookupDetail(PlatformVisionOS, MapGet(visionosMap, code))
    ELSE EmptyDetail

Lookup(code) == LookupDetailed(code).Name

LwpBody(platform0, code0, ipadMap, tvMap, other) ==
    LET code == TrimSpace(code0)
        platform == normalizePlatform(platform0)
    IN  IF code = EmptyStr THEN EmptyStr
        ELSE IF platform = EmptyStr THEN Lookup(code)
        ELSE CASE platform = PlatformIOS      -> MapGet(iosMap, code)
               [] platform = PlatformIPADOS   -> MapGet(ipadMap, code)
               [] platform = PlatformMACOS    -> MapGet(macosMap, code)
               [] platform = PlatformTVOS     -> MapGet(tvMap, code)
               [] platform = PlatformWatchOS  -> MapGet(watchosMap, code)
               [] platform = PlatformVisionOS -> MapGet(visionosMap, code)
               [] OTHER                       -> other

\* case PlatformIPADOS reads a mapping of its own, which nothing loads
LookupWithPlatform_noIPad(platform0, code0) ==
    LwpBody(platform0, code0, NilMap, tvosMap, EmptyStr)

\* case PlatformTVOS returns watchosMap[code]
LookupWithPlatform_swapped(platform0, code0) ==
    LwpBody(platform0, code0, iosMap, watchosMap, EmptyStr)

\* default: falls back to the auto-detecting lookup
LookupWithPlatform_fallback(platform0, code0) ==
    LwpBody(platform0, code0, iosMap, tvosMap, Lookup(TrimSpace(code0)))

\* LookupWithPlatform after its call of loadAll()
LookupWithPlatform(platform0, code0) ==
    LET code == TrimSpace(code0)
        platform == normalizePlatform(platform0)
    IN  IF code = EmptyStr THEN EmptyStr
        ELSE IF platform = EmptyStr THEN Lookup(code)
        ELSE CASE platform = PlatformIOS      -> MapGet(iosMap, code)
               [] platform = PlatformIPADOS   -> MapGet(iosMap, code)
               [] platform = PlatformMACOS    -> MapGet(macosMap, code)
               [] platform = PlatformTVOS     -> MapGet(tvosMap, code)
               [] platform = PlatformWatchOS  -> MapGet(watchosMap, code)
               [] platform = PlatformVisionOS -> MapGet(visionosMap, code)
               [] OTHER                       -> EmptyStr

\* DataVersion after its call of loadAll()
DataVersion ==
    <<meta.UpstreamRepo, meta.UpstreamRef \o <<" ", "s", "h", "a", ":">> \o meta.UpstreamSHA,
      meta.SyncedAtUTC>>

\* ------------------------------------------------------------------ calls
Ops == {"Lookup", "LookupDetailed", "LookupWithPlatform", "DataVersion"}

NoRet == [op |-> "none", platform |-> EmptyStr, code |-> EmptyStr, val |-> EmptyStr]

InitWith(data) ==
    /\ embeddedData \in data
    /\ loadOnce = [done |-> 0, m |-> 0]
    /\ iosMap = NilMap
    /\ macosMap = NilMap
    /\ tvosMap = NilMap
    /\ watchosMap = NilMap
    /\ visionosMap = NilMap
    /\ meta = ZeroMeta
    /\ pc = [p \in Procs |-> "idle"]
    /\ op = [p \in Procs |-> "none"]
    /\ ret = [p \in Procs |-> NoRet]
    /\ fast = [p \in Procs |-> FALSE]
    /\ loadRuns = 0
    /\ writes = [v \in PkgVars |-> 0]

Init == InitWith(ConcData)
InitSeq == InitWith(SeqData)

\* a goroutine enters one of the public operations, whose first statement
\* is loadAll()
Call(p) ==
    /\ pc[p] = "idle"
    /\ \E o \in Ops : op' = [op EXCEPT ![p] = o]
    /\ pc' = [pc EXCEPT ![p] = "do"]
    /\ UNCHANGED <<embeddedData, loadOnce, maps, meta, ret, fast, loadRuns, writes>>

\* Once.Do written as `if o.done.CompareAndSwap(0, 1) { f() }`: the flag is
\* set before f has run and nobody waits for it
DoFast_cas(p) ==
    /\ pc[p] = "do"
    /\ IF loadOnce.done = 0
       THEN /\ loadOnce' = [loadOnce EXCEPT !.done = 1]
            /\ loadRuns' = loadRuns + 1
            /\ pc' = [pc EXCEPT ![p] = "f_ios"]
            /\ UNCHANGED fast
       ELSE /\ pc' = [pc EXCEPT ![p] = "body"]
            /\ fast' = [fast EXCEPT ![p] = TRUE]
            /\ UNCHANGED <<loadOnce, loadRuns>>
    /\ UNCHANGED <<embeddedData, maps, meta, op, ret, writes>>

\* loadOnce.Do, fast path: if o.done.Load() == 0 { o.doSlow(f) }
DoFast(p) ==
    /\ pc[p] = "do"
    /\ IF loadOnce.done = 0
       THEN pc' = [pc EXCEPT ![p] = "lock"] /\ UNCHANGED fast
       ELSE pc' = [pc EXCEPT ![p] = "body"] /\ fast' = [fast EXCEPT ![p] = TRUE]
    /\ UNCHANGED <<embeddedData, loadOnce, maps, meta, op, ret, loadRuns, writes>>

\* doSlow: o.m.Lock()
Lock(p) ==
    /\ pc[p] = "lock"
    /\ loadOnce.m = 0
    /\ loadOnce' = [loadOnce EXCEPT !.m = p]
    /\ pc' = [pc EXCEPT ![p] = "check"]
    /\ UNCHANGED <<embeddedData, maps, meta, op, ret, fast, loadRuns, writes>>

\* doSlow without the second look at o.done under the mutex
Check_norecheck(p) ==
    /\ pc[p] = "check"
    /\ loadRuns < NumProcs
    /\ pc' = [pc EXCEPT ![p] = "f_ios"]
    /\ loadRuns' = loadRuns + 1
    /\ UNCHANGED <<embeddedData, loadOnce, maps, meta, op, ret, fast, writes>>

\* doSlow: if o.done.Load() == 0 { defer o.done.Store(1); f() }
Check(p) ==
    /\ pc[p] = "check"
    /\ IF loadOnce.done = 0
       THEN pc' = [pc EXCEPT ![p] = "f_ios"] /\ loadRuns' = loadRuns + 1
       ELSE pc' = [pc EXCEPT ![p] = "unlock"] /\ UNCHANGED loadRuns
    /\ UNCHANGED <<embeddedData, loadOnce, maps, meta, op, ret, fast, writes>>

Written(v) == [writes EXCEPT ![v] = @ + 1]

\* the load body returns at the first document that fails
LoadIos_abort(p) ==
    /\ pc[p] = "f_ios"
    /\ iosMap' = readDeviceMap(iosPath)
    /\ writes' = Written("iosMap")
    /\ pc' = [pc EXCEPT ![p] =
                IF embeddedData[iosPath].readErr \/ embeddedData[iosPath].parseErr
                THEN "store" ELSE "f_macos"]
    /\ UNCHANGED <<embeddedData, loadOnce, macosMap, tvosMap, watchosMap,
                   visionosMap, meta, op, ret, fast, loadRuns>>

LoadIos(p) ==
    /\ pc[p] = "f_ios"
    /\ iosMap' = readDeviceMap(iosPath)
    /\ writes' = Written("iosMap")
    /\ pc' = [pc EXCEPT ![p] = "f_macos"]
    /\ UNCHANGED <<embeddedData, loadOnce, macosMap, tvosMap, watchosMap,
                   visionosMap, meta, op, ret, fast, loadRuns>>

LoadMacos(p) ==
    /\ pc[p] = "f_macos"
    /\ macosMap' = readDeviceMap(macPath)
    /\ writes' = Written("macosMap")
    /\ pc' = [pc EXCEPT ![p] = "f_tvos"]
    /\ UNCHANGED <<embeddedData, loadOnce, iosMap, tvosMap, watchosMap,
                   visionosMap, meta, op, ret, fast, loadRuns>>

LoadTvos(p) ==
    /\ pc[p] = "f_tvos"
    /\ tvosMap' = readDeviceMap(tvosPath)
    /\ writes' = Written("tvosMap")
    /\ pc' = [pc EXCEPT ![p] = "f_watchos"]
    /\ UNCHANGED <<embeddedData, loadOnce, iosMap, macosMap, watchosMap,
                   visionosMap, meta, op, ret, fast, loadRuns>>

LoadWatchos(p) ==
    /\ pc[p] = "f_watchos"
    /\ watchosMap' = readDeviceMap(watchosPath)
    /\ writes' = Written("watchosMap")
    /\ pc' = [pc EXCEPT ![p] = "f_visionos"]
    /\ UNCHANGED <<embeddedData, loadOnce, iosMap, macosMap, tvosMap,
                   visionosMap, meta, op, ret, fast, loadRuns>>

LoadVisionos(p) ==
    /\ pc[p] = "f_visionos"
    /\ visionosMap' = readDeviceMap(visionosPath)
    /\ writes' = Written("visionosMap")
    /\ pc' = [pc EXCEPT ![p] = "f_meta"]
    /\ UNCHANGED <<embeddedData, loadOnce, iosMap, macosMap, tvosMap,
                   watchosMap, meta, op, ret, fast, loadRuns>>

LoadMeta(p) ==
    /\ pc[p] = "f_meta"
    /\ meta' = readUpstreamMeta(upstreamPath)
    /\ writes' = Written("meta")
    /\ pc' = [pc EXCEPT ![p] = "store"]
    /\ UNCHANGED <<embeddedData, loadOnce, maps, op, ret, fast, loadRuns>>

\* deferred o.done.Store(1), run when f has returned
StoreDone(p) ==
    /\ pc[p] = "store"
    /\ loadOnce' = [loadOnce EXCEPT !.done = 1]
    /\ pc' = [pc EXCEPT ![p] = "unlock"]
    /\ UNCHANGED <<embeddedData, maps, meta, op, ret, fast, loadRuns, writes>>

\* deferred o.m.Unlock(); loadAll() returns
Unlock(p) ==
    /\ pc[p] = "unlock"
    /\ loadOnce' = [loadOnce EXCEPT !.m = 0]
    /\ pc' = [pc EXCEPT ![p] = "body"]
    /\ UNCHANGED <<embeddedData, maps, meta, op, ret, fast, loadRuns, writes>>

Returned(p, o, platform, code, val) ==
    /\ ret' = [ret EXCEPT ![p] = [op |-> o, platform |-> platform,
                                  code |-> code, val |-> val]]
    /\ pc' = [pc EXCEPT ![p] = "returned"]
    /\ UNCHANGED <<embeddedData, loadOnce, maps, meta, op, fast, loadRuns, writes>>

\* The rest of each operation, after loadAll().  The arguments are local to
\* the caller and loadAll() takes none, so they are drawn here.  The calls of
\* loadAll() nested in it (Lookup -> LookupDetailed, LookupWithPlatform ->
\* Lookup) come after the caller's own and find loadOnce done.
RetLookup(p, codes) ==
    /\ pc[p] = "body" /\ op[p] = "Lookup"
    /\ \E code \in codes : Returned(p, "Lookup", EmptyStr, code, Lookup(code))

RetLookupDetailed(p, codes) ==
    /\ pc[p] = "body" /\ op[p] = "LookupDetailed"
    /\ \E code \in codes :
          Returned(p, "LookupDetailed", EmptyStr, code, LookupDetailed(code))

RetLookupWithPlatform(p, platforms, codes) ==
    /\ pc[p] = "body" /\ op[p] = "LookupWithPlatform"
    /\ \E platform \in platforms, code \in codes :
          Returned(p, "LookupWithPlatform", platform, code,
                   LookupWithPlatform(platform, code))

RetDataVersion(p) ==
    /\ pc[p] = "body" /\ op[p] = "DataVersion"
    /\ Returned(p, "DataVersion", EmptyStr, EmptyStr, DataVersion)

\* the caller is ready for its next call
Finish(p) ==
    /\ pc[p] = "returned"
    /\ pc' = [pc EXCEPT ![p] = "idle"]
    /\ op' = [op EXCEPT ![p] = "none"]
    /\ ret' = [ret EXCEPT ![p] = NoRet]
    /\ fast' = [fast EXCEPT ![p] = FALSE]
    /\ UNCHANGED <<embeddedData, loadOnce, maps, meta, loadRuns, writes>>

\* concurrent callers
Next ==
    \E p \in Procs :
        \/ Call(p) \/ DoFast(p) \/ Lock(p) \/ Check(p)
        \/ LoadIos(p) \/ LoadMacos(p) \/ LoadTvos(p) \/ LoadWatchos(p)
        \/ LoadVisionos(p) \/ LoadMeta(p) \/ StoreDone(p) \/ Unlock(p)
        \/ RetLookup(p, ConcCodes) \/ RetLookupDetailed(p, ConcCodes)
        \/ RetLookupWithPlatform(p, ConcPlatforms, ConcCodes)
        \/ RetDataVersion(p) \/ Finish(p)

Spec == Init /\ [][Next]_vars

\* one caller, every argument and every embedded file system
NextSeq ==
    \/ Call(1) \/ DoFast(1) \/ Lock(1) \/ Check(1)
    \/ LoadIos(1) \/ LoadMacos(1) \/ LoadTvos(1) \/ LoadWatchos(1)
    \/ LoadVisionos(1) \/ LoadMeta(1) \/ StoreDone(1) \/ Unlock(1)
    \/ RetLookup(1, Codes) \/ RetLookupDetailed(1, Codes)
    \/ RetLookupWithPlatform(1, Platforms, Codes)
    \/ RetDataVersion(1) \/ Finish(1)

SpecSeq == InitSeq /\ [][NextSeq]_vars

\* ------------------------------------------------------------- properties
LoadPcs == {"f_ios", "f_macos", "f_tvos", "f_watchos", "f_visionos", "f_meta"}

\* the caller has passed its call of loadAll()
PastLoadAll(p) == pc[p] \in {"body", "returned"}

\* every package variable has been assigned, once, from its document
FullyLoaded ==
    /\ \A v \in PkgVars : writes[v] = 1
    /\ iosMap = readDeviceMap(iosPath)
    /\ macosMap = readDeviceMap(macPath)
    /\ tvosMap = readDeviceMap(tvosPath)
    /\ watchosMap = readDeviceMap(watchosPath)
    /\ visionosMap = readDeviceMap(visionosPath)
    /\ meta = readUpstreamMeta(upstreamPath)

\* the call r, made in the current state
AnswerNow(r) ==
    CASE r.op = "Lookup"             -> Lookup(r.code)
      [] r.op = "LookupDetailed"     -> LookupDetailed(r.code)
      [] r.op = "LookupWithPlatform" -> LookupWithPlatform(r.platform, r.code)
      [] r.op = "DataVersion"        -> DataVersion

\* C1: a caller that has passed loadAll() - on the fast path, after waiting
\* for the mutex, or as the loader itself - finds the five mappings and the
\* metadata fully loaded, and what it returned is what the same call
\* returns on the loaded state.
C1_LoadedBeforeRead ==
    \A p \in Procs :
        PastLoadAll(p) =>
            /\ FullyLoaded
            /\ pc[p] = "returned" => ret[p].val = AnswerNow(ret[p])

\* two callers that both arrived before the load was done (neither took the
\* fast path) have both returned a name
C1_Witness ==
    \E p, q \in Procs :
        /\ p # q
        /\ pc[p] = "returned" /\ pc[q] = "returned"
        /\ ~fast[p] /\ ~fast[q]
        /\ ret[p].op = "LookupWithPlatform" /\ ret[p].val # EmptyStr
        /\ ret[q].op = "Lookup" /\ ret[q].val # EmptyStr

\* C2: the load body starts at most once; each of the six package variables
\* is assigned at most once, only by the holder of the gate inside the load
\* body, and all six have been assigned when the gate is done; once it is
\* done no step changes a mapping or the metadata.
C2_WriteOnce ==
    [][ /\ loadRuns' <= 1
        /\ \A v \in PkgVars : writes'[v] <= 1
        /\ writes' # writes =>
              \E p \in Procs : pc[p] \in LoadPcs /\ loadOnce.m = p
        /\ iosMap' # iosMap => writes'["iosMap"] = writes["iosMap"] + 1
        /\ macosMap' # macosMap => writes'["macosMap"] = writes["macosMap"] + 1
        /\ tvosMap' # tvosMap => writes'["tvosMap"] = writes["tvosMap"] + 1
        /\ watchosMap' # watchosMap => writes'["watchosMap"] = writes["watchosMap"] + 1
        /\ visionosMap' # visionosMap => writes'["visionosMap"] = writes["visionosMap"] + 1
        /\ meta' # meta => writes'["meta"] = writes["meta"] + 1
        /\ loadOnce.done = 1 =>
              /\ \A v \in PkgVars : writes[v] = 1
              /\ UNCHANGED <<maps, meta, writes, loadRuns>>
      ]_vars

\* after the load, one caller has returned from a later call (fast path)
\* while another has returned from a call that waited at the gate
C2_Witness ==
    \E p, q \in Procs :
        /\ p # q
        /\ loadOnce.done = 1 /\ loadRuns = 1
        /\ pc[p] = "returned" /\ fast[p]
        /\ pc[q] = "returned" /\ ~fast[q]
        /\ iosMap # NilMap /\ meta # ZeroMeta

\* ---------------------------------------------- properties of the lookups
RecognizedTags ==
    {PlatformIOS, PlatformIPADOS, PlatformMACOS, PlatformTVOS,
     PlatformWatchOS, PlatformVisionOS}

\* the mapping behind a recognized tag
MapOfTag(tag) ==
    CASE tag = PlatformIOS      -> iosMap
      [] tag = PlatformIPADOS   -> iosMap
      [] tag = PlatformMACOS    -> macosMap
      [] tag = PlatformTVOS     -> tvosMap
      [] tag = PlatformWatchOS  -> watchosMap
      [] tag = PlatformVisionOS -> visionosMap

\* caller p has returned from operation o
ReturnedFrom(p, o) == pc[p] = "returned" /\ ret[p].op = o

\* C3 as stated: LookupWithPlatform(F, k) returns the stored non-empty name
\* for every key k of the mapping of every recognized tag F.
C3_EveryKey ==
    \A p \in Procs :
        /\ ReturnedFrom(p, "LookupWithPlatform")
        /\ ret[p].platform \in RecognizedTags
        /\ ret[p].code \in DOMAIN MapOfTag(ret[p].platform)
        => /\ ret[p].val = MapOfTag(ret[p].platform)[ret[p].code]
           /\ ret[p].val # EmptyStr

\* C3 amended: the same for every key k that is non-empty and has no
\* leading or trailing whitespace.
C3_TrimmedKey ==
    \A p \in Procs :
        /\ ReturnedFrom(p, "LookupWithPlatform")
        /\ ret[p].platform \in RecognizedTags
        /\ ret[p].code \in DOMAIN MapOfTag(ret[p].platform)
        /\ ret[p].code # EmptyStr
        /\ TrimSpace(ret[p].code) = ret[p].code
        => /\ ret[p].val = MapOfTag(ret[p].platform)[ret[p].code]
           /\ ret[p].val # EmptyStr

\* a set-top-box identifier has been looked up under the tvos tag while the
\* watchos mapping has no such key
C3_Witness ==
    \E p \in Procs :
        /\ ReturnedFrom(p, "LookupWithPlatform")
        /\ ret[p].platform = PlatformTVOS
        /\ ret[p].code = kTV
        /\ kTV \in DOMAIN tvosMap
        /\ kTV \notin DOMAIN watchosMap
        /\ ret[p].val # EmptyStr

\* C4: with a platform that is empty after trimming, LookupWithPlatform
\* returns what Lookup returns for the same identifier.
C4_EmptyPlatformIsLookup ==
    \A p \in Procs :
        /\ ReturnedFrom(p, "LookupWithPlatform")
        /\ TrimSpace(ret[p].platform) = EmptyStr
        => ret[p].val = Lookup(ret[p].code)

\* a blank platform and a wearable identifier that the phone mapping holds
\* too: auto-detection answers from the wearable mapping
C4_Witness ==
    \E p \in Procs :
        /\ ReturnedFrom(p, "LookupWithPlatform")
        /\ ret[p].platform # EmptyStr
        /\ TrimSpace(ret[p].platform) = EmptyStr
        /\ ret[p].code = kWatch
        /\ kWatch \in DOMAIN iosMap
        /\ kWatch \in DOMAIN watchosMap
        /\ ret[p].val = watchosMap[kWatch]

\* C5: a platform that is non-empty after trimming and lowercasing and is
\* not a recognized tag yields the empty string.
C5_UnrecognizedIsEmpty ==
    \A p \in Procs :
        /\ ReturnedFrom(p, "LookupWithPlatform")
        /\ ToLower(TrimSpace(ret[p].platform)) # EmptyStr
        /\ ToLower(TrimSpace(ret[p].platform)) \notin RecognizedTags
        => ret[p].val = EmptyStr

\* an unrecognized platform with an identifier that Lookup resolves
C5_Witness ==
    \E p \in Procs :
        /\ ReturnedFrom(p, "LookupWithPlatform")
        /\ ToLower(TrimSpace(ret[p].platform)) # EmptyStr
        /\ ToLower(TrimSpace(ret[p].platform)) \notin RecognizedTags
        /\ Lookup(ret[p].code) # EmptyStr
        /\ ret[p].val = EmptyStr

\* C6: Platform and Name of a LookupDetailed result are both empty or both
\* non-empty.
C6_JointlyEmpty ==
    \A p \in Procs :
        ReturnedFrom(p, "LookupDetailed") =>
            (ret[p].val.Platform = EmptyStr <=> ret[p].val.Name = EmptyStr)

\* the classifier gave a tag with an empty name and no mapping holds the
\* identifier: the caller got the empty result
C6_Witness ==
    \E p \in Procs :
        /\ ReturnedFrom(p, "LookupDetailed")
        /\ lookupByPrefixDetailed(TrimSpace(ret[p].code)).Platform # EmptyStr
        /\ lookupByPrefixDetailed(TrimSpace(ret[p].code)).Name = EmptyStr
        /\ ret[p].val = EmptyDetail

\* C7: under the ipados tag and under the ios tag LookupWithPlatform returns
\* the same value for the same identifier.
C7_IPadOSIsIOS ==
    \A p \in Procs :
        /\ ReturnedFrom(p, "LookupWithPlatform") =>
              /\ ret[p].platform = PlatformIPADOS =>
                    ret[p].val = LookupWithPlatform(PlatformIOS, ret[p].code)
              /\ ret[p].platform = PlatformIOS =>
                    ret[p].val = LookupWithPlatform(PlatformIPADOS, ret[p].code)

\* a phone identifier has been resolved under the ipados tag
C7_Witness ==
    \E p \in Procs :
        /\ ReturnedFrom(p, "LookupWithPlatform")
        /\ ret[p].platform = PlatformIPADOS
        /\ ret[p].code = kIPhone
        /\ ret[p].val # EmptyStr

\* the classifier of C8: prefixes and tag, in order
ClassifierOrder ==
    << <<{<<"i", "P", "h", "o", "n", "e">>, <<"i", "P", "o", "d">>}, PlatformIOS>>,
       <<{<<"i", "P", "a", "d">>}, PlatformIPADOS>>,
       <<{<<"W", "a", "t", "c", "h">>}, PlatformWatchOS>>,
       <<{<<"A", "p", "p", "l", "e", "T", "V">>}, PlatformTVOS>>,
       <<{<<"R", "e", "a", "l", "i", "t", "y", "D", "e", "v", "i", "c", "e">>}, PlatformVisionOS>>,
       <<{<<"i", "M", "a", "c">>, <<"M", "a", "c">>}, PlatformMACOS>> >>

FallbackOrder ==
    <<PlatformIOS, PlatformMACOS, PlatformTVOS, PlatformWatchOS, PlatformVisionOS>>

Min(S) == CHOOSE x \in S : \A y \in S : x <= y

\* the result C8 describes for a trimmed, non-empty identifier
C8_Expected(code) ==
    LET hits == {i \in 1..Len(ClassifierOrder) :
                    \E pre \in ClassifierOrder[i][1] : HasPrefix(code, pre)}
        holders == {i \in 1..Len(FallbackOrder) :
                    code \in DOMAIN MapOfTag(FallbackOrder[i])}
    IN  IF hits # {} /\ code \in DOMAIN MapOfTag(ClassifierOrder[Min(hits)][2])
        THEN [Platform |-> ClassifierOrder[Min(hits)][2],
              Name |-> MapOfTag(ClassifierOrder[Min(hits)][2])[code]]
        ELSE IF holders # {}
        THEN [Platform |-> FallbackOrder[Min(holders)],
              Name |-> MapOfTag(FallbackOrder[Min(holders)])[code]]
        ELSE [Platform |-> EmptyStr, Name |-> EmptyStr]

\* C8: LookupDetailed returns the classified family's name and tag when that
\* family's mapping holds the identifier, else name and tag of the first of
\* ios, macos, tvos, watchos, visionos whose mapping holds it, else the
\* empty result; Lookup returns the Name of that result.
C8_ClassifierThenScan ==
    \A p \in Procs :
        /\ ReturnedFrom(p, "LookupDetailed") /\ TrimSpace(ret[p].code) # EmptyStr
              => ret[p].val = C8_Expected(TrimSpace(ret[p].code))
        /\ ReturnedFrom(p, "Lookup") /\ TrimSpace(ret[p].code) # EmptyStr
              => ret[p].val = C8_Expected(TrimSpace(ret[p].code)).Name

\* an identifier without a known prefix, held by the set-top-box and the
\* wearable mapping only, has been resolved by the scan
C8_Witness ==
    \E p \in Procs :
        /\ ReturnedFrom(p, "LookupDetailed")
        /\ ret[p].code = kOther
        /\ kOther \notin DOMAIN iosMap \cup DOMAIN macosMap
        /\ kOther \in DOMAIN tvosMap \cap DOMAIN watchosMap
        /\ ret[p].val.Platform = PlatformTVOS

\* the strings of a source value that are non-empty after trimming
Candidates(value) ==
    IF value.t = "string"
    THEN IF TrimSpace(value.s) # EmptyStr THEN {0} ELSE {}
    ELSE IF value.t = "array"
    THEN {i \in 1..Len(value.items) :
            value.items[i].t = "string" /\ TrimSpace(value.items[i].s) # EmptyStr}
    ELSE {}

\* the name C9 gives a source value that has a candidate
ResolvedName(value) ==
    IF value.t = "string" THEN TrimSpace(value.s)
    ELSE TrimSpace(value.items[Min(Candidates(value))].s)

\* the mapping C9 describes for the decoded document raw
ExpectedMap(raw) ==
    [k \in {x \in DOMAIN raw : Candidates(raw[x]) # {}} |-> ResolvedName(raw[k])]

C9_MapOk(m, raw) ==
    /\ \A k \in DOMAIN m :
          /\ m[k] # EmptyStr
          /\ TrimSpace(m[k]) = m[k]
          /\ k \in DOMAIN raw
          /\ Candidates(raw[k]) # {}
          /\ m[k] = ResolvedName(raw[k])
    /\ \A k \in DOMAIN raw : Candidates(raw[k]) = {} => k \notin DOMAIN m
    /\ \A k \in DOMAIN raw : Candidates(raw[k]) # {} => k \in DOMAIN m

\* C9: after loading, every entry of every mapping is the trimmed source
\* string, or the first string of the source list that is non-empty after
\* trimming; a source entry without such a string has no entry.
C9_ResolvedNames ==
    loadOnce.done = 1 =>
        /\ C9_MapOk(iosMap, embeddedData[iosPath].raw)
        /\ C9_MapOk(macosMap, embeddedData[macPath].raw)
        /\ C9_MapOk(tvosMap, embeddedData[tvosPath].raw)
        /\ C9_MapOk(watchosMap, embeddedData[watchosPath].raw)
        /\ C9_MapOk(visionosMap, embeddedData[visionosPath].raw)

\* loaded: a name taken from a list after blank candidates, a padded name
\* trimmed, and source entries of every other shape dropped
C9_Witness ==
    /\ loadOnce.done = 1
    /\ kIPod \in DOMAIN iosMap /\ iosMap[kIPod] = <<"I", "2">>
    /\ kIPad \in DOMAIN iosMap /\ iosMap[kIPad] = <<"I", "4">>
    /\ kOther \in DOMAIN tvosMap /\ tvosMap[kOther] = <<"T", "a">>
    /\ {kIMac, kMac, kTV, kReality, kIPod} \subseteq DOMAIN embeddedData[watchosPath].raw
    /\ {kIMac, kMac, kTV, kReality, kIPod} \cap DOMAIN watchosMap = {}

Failed(path) == embeddedData[path].readErr \/ embeddedData[path].parseErr

MapOfPath(path) ==
    CASE path = iosPath      -> iosMap
      [] path = macPath      -> macosMap
      [] path = tvosPath     -> tvosMap
      [] path = watchosPath  -> watchosMap
      [] path = visionosPath -> visionosMap

TagsOfPath(path) ==
    CASE path = iosPath      -> {PlatformIOS, PlatformIPADOS}
      [] path = macPath      -> {PlatformMACOS}
      [] path = tvosPath     -> {PlatformTVOS}
      [] path = watchosPath  -> {PlatformWatchOS}
      [] path = visionosPath -> {PlatformVisionOS}

\* C10: when the document of a family cannot be read or parsed, the load
\* still runs to its end, once: that family's mapping is empty and
\* LookupWithPlatform under its tag returns empty, every other family's
\* mapping is what its own document gives, the metadata is what its
\* document gives, and later calls do not load again.
C10_FailureIsEmptyMapping ==
    (\E path \in DevicePaths : Failed(path)) =>
        /\ loadRuns <= 1
        /\ \A path \in DevicePaths : Failed(path) => MapOfPath(path) = NilMap
        /\ \A p \in Procs :
              /\ PastLoadAll(p) =>
                    /\ loadRuns = 1
                    /\ \A v \in PkgVars : writes[v] = 1
                    /\ \A other \in DevicePaths :
                          ~Failed(other) =>
                              MapOfPath(other) = ExpectedMap(embeddedData[other].raw)
                    /\ meta = IF embeddedData[upstreamPath].readErr
                              THEN ZeroMeta
                              ELSE embeddedData[upstreamPath].fields
              /\ /\ ReturnedFrom(p, "LookupWithPlatform")
                 /\ \E path \in DevicePaths :
                       /\ Failed(path)
                       /\ ToLower(TrimSpace(ret[p].platform)) \in TagsOfPath(path)
                 => ret[p].val = EmptyStr

\* the phone document alone is unparsable; a later call (fast path) under
\* the ios tag returned empty for an identifier that the set-top-box mapping
\* holds, while the other mappings and the metadata are loaded
C10_Witness ==
    \E p \in Procs :
        /\ embeddedData[iosPath].parseErr
        /\ \A path \in DevicePaths \ {iosPath} : ~Failed(path)
        /\ ReturnedFrom(p, "LookupWithPlatform")
        /\ fast[p]
        /\ ret[p].platform = PlatformIOS /\ ret[p].code = kIPhone
        /\ ret[p].val = EmptyStr
        /\ kIPhone \in DOMAIN tvosMap /\ kWatch \in DOMAIN watchosMap
        /\ kOther \in DOMAIN macosMap /\ kReality \in DOMAIN visionosMap
        /\ meta = GoodMeta
        /\ loadRuns = 1

TypeOK ==
    /\ loadOnce.done \in {0, 1}
    /\ loadOnce.m \in Procs \cup {0}
    /\ loadRuns \in 0..NumProcs

====
